---- MODULE Spec2Model ----
(***************************************************************************)
(* Model of gym_auv/environment.py: BaseShipScenario, the episode state    *)
(* machine of the path-following environment.  One action per public call  *)
(* (reset, step, seed) and per way that call can end (return or raise).    *)
(* The extension points generate(), observe() and step_reward() and the    *)
(* collaborators (path, vessel) are environment inputs drawn from small    *)
(* sets.  Arclengths are integers; floats that may be non-finite (the      *)
(* observation entries and the rewards) are tagged records.                *)
(***************************************************************************)
EXTENDS Integers, Sequences, FiniteSets

VARIABLES config, observation_space, answers, vessel, path, look_ahead_arclength, np_random,
          cumulative_reward, past_rewards, max_path_prog, target_arclength,
          path_prog, past_actions, past_obs, past_errors,
          t_step, total_t_steps, episode, memory, ret, prev

vars == <<config, observation_space, answers, vessel, path, look_ahead_arclength, np_random,
          cumulative_reward, past_rewards, max_path_prog, target_arclength,
          path_prog, past_actions, past_obs, past_errors,
          t_step, total_t_steps, episode, memory, ret, prev>>

-----------------------------------------------------------------------------
(* Bounds of the model *)

\* step() calls explored per episode (returning or raising)
MaxSteps == 2
\* value of the episode counter up to which reset() is explored
MaxEpisode == 3
\* points at which the stored path is sampled (np.linspace(0, s_max, 1000))
NSamples == 2

-----------------------------------------------------------------------------
(* Python values *)

\* None, and a value that is not None
PyNone == [isNone |-> TRUE]
Some(x) == [isNone |-> FALSE, v |-> x]

\* IEEE-754 doubles: finite values, the infinities and NaN
Fin(n) == [kind |-> "fin", val |-> n]
PInf == [kind |-> "inf", val |-> 1]
NInf == [kind |-> "inf", val |-> -1]
NaN == [kind |-> "nan", val |-> 0]

\* np.isnan on one element
IsNan(x) == x.kind = "nan"
\* np.isfinite on one element
IsFinite(x) == x.kind = "fin"

\* float addition (cumulative_reward += step_reward)
FAdd(a, b) ==
    IF IsNan(a) \/ IsNan(b) THEN NaN
    ELSE IF a.kind = "inf" /\ b.kind = "inf"
         THEN (IF a.val = b.val THEN a ELSE NaN)
    ELSE IF a.kind = "inf" THEN a
    ELSE IF b.kind = "inf" THEN b
    ELSE Fin(a.val + b.val)

\* prog / path.length for a non-zero length: the fraction, kept exact
Frac(a, b) == [kind |-> "fin", val |-> a, den |-> b]

\* np.isnan(obs).any()
HasNan(obs) == \E i \in 1..Len(obs) : IsNan(obs[i])

\* faulty variant: the rows are returned as they were
np_vstack_Noop(rows, row) == rows
\* faulty variant: the new row replaces the rows
np_vstack_Replace(rows, row) == <<row>>
\* np.vstack([rows, row]) on a two-dimensional array
np_vstack(rows, row) == Append(rows, row)

\* faulty variant: the array is returned as it was
np_append_Noop(arr, x) == arr
\* np.append(arr, x); np.append(None, x) is the object array [None, x]
np_append(arr, x) == Append(arr, x)
np_append_to(pp, x) ==
    IF pp.isNone THEN <<PyNone, Some(x)>> ELSE np_append(pp.v, Some(x))

Min2(a, b) == IF a < b THEN a ELSE b
Max2(a, b) == IF a > b THEN a ELSE b
Abs(a) == IF a < 0 THEN -a ELSE a

-----------------------------------------------------------------------------
(* Configuration and inputs *)

\* number of state variables in an observation (self.nstates)
nstates == 7

\* env_config: the keys the class reads
Configs ==
    { [n_sectors |-> 1, n_sensors_per_sector |-> 1, t_step_size |-> 1,
       min_la_dist |-> 1, max_closest_point_distance |-> 1,
       max_closest_point_heading_error |-> 1, max_timestemps |-> 1],
      [n_sectors |-> 2, n_sensors_per_sector |-> 1, t_step_size |-> 1,
       min_la_dist |-> 0, max_closest_point_distance |-> 1,
       max_closest_point_heading_error |-> 1, max_timestemps |-> 2] }

\* length of an observation vector
nobservations(cfg) == nstates + cfg.n_sectors * 2

\* lines 126-134: the bounds of the observation space, indexed from 0 as the
\* lists low_obs and high_obs are
ExtendedRange == 10000
\* faulty variant: the extended range on the second slot
ObservationSpace_SecondSlot(cfg) ==
    [low |-> [i \in 0..(nobservations(cfg) - 1) |->
                 IF i = 1 THEN 0 - ExtendedRange ELSE 0 - 1],
     high |-> [i \in 0..(nobservations(cfg) - 1) |->
                 IF i = 1 THEN ExtendedRange ELSE 1]]
ObservationSpace(cfg) ==
    [low |-> [i \in 0..(nobservations(cfg) - 1) |->
                 IF i = nstates - 1 THEN 0 - ExtendedRange ELSE 0 - 1],
     high |-> [i \in 0..(nobservations(cfg) - 1) |->
                 IF i = nstates - 1 THEN ExtendedRange ELSE 1]]

\* actions [propeller_input, rudder_position] the agent passes to step()
Actions == { <<1, 1>> }

\* the rows past_actions starts with
InitialPastActions == << <<0, 0>> >>

\* paths generate() may produce: arclength runs over 0..length
PathLengths == {0, 1}
Paths == { [length |-> l, s_max |-> l] : l \in PathLengths }

\* path(s): position on the path at arclength s
PathAt(p, s) == s

\* np.linspace(0, s_max, NSamples), on the integer grid
Linspace(smax) == [i \in 1..NSamples |-> ((i - 1) * smax) \div (NSamples - 1)]

\* self.path(np.linspace(0, self.path.s_max, 1000))
PathSamples(p) == [i \in 1..NSamples |-> PathAt(p, Linspace(p.s_max)[i])]

\* the vessel generate() produces
NewVessel == [position |-> 0, speed |-> 0, course |-> 0, path_taken |-> <<0>>]

\* vessel.step(action): the vessel moves and records its position
VesselStep(v, action) ==
    [position |-> v.position + action[1],
     speed |-> action[1],
     course |-> action[2],
     path_taken |-> Append(v.path_taken, v.position + action[1])]

\* what path.get_closest_point_distance and geom.princip may return
Distances == {0, 1}
HeadingErrors == {-1, 0, 1}
\* np.cos(course_path_angle), to the nearest integer
Cosines == {-1, 0, 1}

\* observation vectors observe() may assemble: all zero but one slot
ObsWith(n, i, x) == [j \in 1..n |-> IF j = i THEN x ELSE Fin(0)]
Observations(cfg) ==
    { ObsWith(nobservations(cfg), nstates, x) : x \in {Fin(0), PInf, NaN} }

\* values observe() may write to look_ahead_arclength (PyNone: no write)
LookAheads == {1}
LookAheadWrites == {PyNone} \cup { Some(l) : l \in LookAheads }
ObserveLookAhead(la, w) == IF w.isNone THEN la ELSE w

\* step rewards step_reward() may return, and its done flag
Rewards == {Fin(1), NaN}

\* seeds seed() may be called with
Seeds == {1}
\* the generator seeding.np_random(seed) returns; seed None draws entropy
np_random_of(seed) == [isNone |-> FALSE, seed |-> seed]
EntropySeed == 0

-----------------------------------------------------------------------------
(* step(): progress along the path, lines 161-182 *)

\* dprog = np.cos(course_path_angle) * vessel.speed * t_step_size
DProg(cosine, speed, cfg) == cosine * speed * cfg.t_step_size

\* faulty variant: both tests must pass
TrustClosestPoint_And(dist, herr, cfg) ==
    /\ dist < cfg.max_closest_point_distance
    /\ Abs(herr) < cfg.max_closest_point_heading_error
\* the switch between the closest point and the forward projection
TrustClosestPoint(dist, herr, cfg) ==
    \/ dist < cfg.max_closest_point_distance
    \/ Abs(herr) < cfg.max_closest_point_heading_error

\* prog, lines 165-171
Prog(dist, herr, closest_arclength, dprog, mpp, length, cfg) ==
    IF TrustClosestPoint(dist, herr, cfg)
    THEN closest_arclength
    ELSE Min2(Max2(0, mpp + dprog), length)

\* faulty variant: the maximum is never moved
NewMaxPathProg_Stuck(mpp, prog) == mpp
\* faulty variant: the maximum is overwritten by every prog
NewMaxPathProg_Overwrite(mpp, prog) == prog
\* lines 173-174
NewMaxPathProg(mpp, prog) == IF prog > mpp THEN prog ELSE mpp

\* faulty variant: line 182 is missing
NewTargetArclength_NoClamp(la, mpp, length, cfg) ==
    IF la.isNone THEN mpp + cfg.min_la_dist
    ELSE Max2(la.v, mpp + cfg.min_la_dist)
\* lines 178-182
NewTargetArclength(la, mpp, length, cfg) ==
    Min2(IF la.isNone THEN mpp + cfg.min_la_dist
         ELSE Max2(la.v, mpp + cfg.min_la_dist),
         length)

\* faulty variant: line 180 reads the maximum as it was before line 174
TargetMaxPathProg_Before(before, after) == before
\* lines 178-181 read self.max_path_prog after lines 173-174 wrote it, in
\* both branches
TargetMaxPathProg(before, after) == after

\* what the path and the vessel answer in lines 161-163 of one step()
Answers ==
    [dist : Distances, herr : HeadingErrors,
     closest_arclength : 0..path.length, cosine : Cosines]
\* no answers on record: the last call was no step(), or its answers were
\* not recorded
Unobserved == PyNone

\* prog of lines 161-171 for these answers, the vessel having moved
ProgOf(ans, action) ==
    Prog(ans.dist, ans.herr, ans.closest_arclength,
         DProg(ans.cosine, VesselStep(vessel, action).speed, config),
         max_path_prog, path.length, config)

\* every prog the collaborators' answers can lead to in this state
ProgChoices(action) == { ProgOf(ans, action) : ans \in Answers }

-----------------------------------------------------------------------------
(* The calls and how they end *)

\* the outcome of the last call: which method, the exception it raised
\* ("none": it returned), and what it returned (obs is the assembled
\* observation also when the call raised: the diagnostic carries it)
Ret(op, raised, obs, reward, done, sdone, progress) ==
    [op |-> op, raised |-> raised, obs |-> obs, reward |-> reward,
     done |-> done, shaper_done |-> sdone, progress |-> progress]

NoObs == << >>
Returned(r) == r.raised = "none"

\* the part of a call's outcome the next call can see
Prev(r) == [op |-> r.op, raised |-> r.raised]

\* past_errors after reset, lines 224-229
EmptyErrors ==
    [speed |-> << >>, cross_track |-> << >>, heading |-> << >>,
     la_heading |-> << >>]

\* self.memory = [] in __init__, and the record reset() stores
NoMemory == [set |-> FALSE, path |-> << >>, path_taken |-> << >>]
MemoryOf(p, v) ==
    [set |-> TRUE, path |-> PathSamples(p), path_taken |-> v.path_taken]

\* faulty variant: the record is taken after the vessel is replaced
ResetMemory_Late(t, mem, p, v) == IF t > 0 THEN MemoryOf(p, NewVessel) ELSE mem
\* faulty variant: reset() stores a record whether or not a step ran
ResetMemory_Always(t, mem, p, v) == MemoryOf(p, v)
\* lines 209-213
ResetMemory(t, mem, p, v) == IF t > 0 THEN MemoryOf(p, v) ELSE mem

\* faulty variant: reset() seeds the random source every time
ResetSeed_Always(rng) == np_random_of(EntropySeed)
\* lines 236-237
ResetSeed(rng) == IF rng.isNone THEN np_random_of(EntropySeed) ELSE rng

\* the assertion of lines 185 and 241 fails
ObsRejected(obs) == HasNan(obs)

\* faulty variant: the budget test is >= instead of >
StepDone_OffByOne(sdone, t, cfg) == sdone \/ t >= cfg.max_timestemps
\* lines 187 and 194-195: done as step() returns it, t the incremented t_step
StepDone(sdone, t, cfg) == sdone \/ t > cfg.max_timestemps

\* the state after __init__: the attributes of lines 82-114, then reset(),
\* which finds t_step = 0 and leaves memory as line 114 set it
Init ==
    /\ config \in Configs
    /\ observation_space = ObservationSpace(config)
    /\ answers = Unobserved
    /\ path \in Paths
    /\ vessel = NewVessel
    /\ \E obs \in Observations(config), w \in LookAheadWrites :
        /\ ~ObsRejected(obs)
        /\ look_ahead_arclength = ObserveLookAhead(PyNone, w)
        /\ past_obs = Some(<<obs>>)
        /\ ret = Ret("init", "none", obs, Fin(0), FALSE, FALSE, Fin(0))
    /\ np_random = ResetSeed(PyNone)
    /\ cumulative_reward = Fin(0)
    /\ past_rewards = << >>
    /\ max_path_prog = 0
    /\ target_arclength = 0
    /\ path_prog = PyNone
    /\ past_actions = InitialPastActions
    /\ past_errors = EmptyErrors
    /\ t_step = 0
    /\ total_t_steps = 0
    /\ episode = 1
    /\ memory = NoMemory
    /\ prev = [op |-> "none", raised |-> "none"]

\* faulty variant: reset() starts the count of all steps anew
ResetBody_ResetsTotal(p, w) ==
    /\ memory' = ResetMemory(t_step, memory, path, vessel)
    /\ vessel' = NewVessel
    /\ path' = p
    /\ cumulative_reward' = Fin(0)
    /\ max_path_prog' = 0
    /\ target_arclength' = 0
    /\ path_prog' = PyNone
    /\ past_actions' = InitialPastActions
    /\ past_rewards' = << >>
    /\ past_errors' = EmptyErrors
    /\ t_step' = 0
    /\ total_t_steps' = 0
    /\ look_ahead_arclength' = ObserveLookAhead(PyNone, w)
    /\ np_random' = ResetSeed(np_random)
    /\ prev' = Prev(ret)
    /\ answers' = Unobserved
    /\ UNCHANGED <<config, observation_space>>

\* faulty variant: reset() leaves the rewards of the last episode in place
ResetBody_KeepsRewards(p, w) ==
    /\ memory' = ResetMemory(t_step, memory, path, vessel)
    /\ vessel' = NewVessel
    /\ path' = p
    /\ cumulative_reward' = cumulative_reward
    /\ max_path_prog' = 0
    /\ target_arclength' = 0
    /\ path_prog' = PyNone
    /\ past_actions' = InitialPastActions
    /\ past_rewards' = past_rewards
    /\ past_errors' = EmptyErrors
    /\ t_step' = 0
    /\ look_ahead_arclength' = ObserveLookAhead(PyNone, w)
    /\ np_random' = ResetSeed(np_random)
    /\ prev' = Prev(ret)
    /\ answers' = Unobserved
    /\ UNCHANGED <<config, observation_space, total_t_steps>>

\* reset() up to and including observe(), lines 209-240
ResetBody(p, w) ==
    /\ memory' = ResetMemory(t_step, memory, path, vessel)
    /\ vessel' = NewVessel
    /\ path' = p
    /\ cumulative_reward' = Fin(0)
    /\ max_path_prog' = 0
    /\ target_arclength' = 0
    /\ path_prog' = PyNone
    /\ past_actions' = InitialPastActions
    /\ past_rewards' = << >>
    /\ past_errors' = EmptyErrors
    /\ t_step' = 0
    /\ look_ahead_arclength' = ObserveLookAhead(PyNone, w)
    /\ np_random' = ResetSeed(np_random)
    /\ prev' = Prev(ret)
    /\ answers' = Unobserved
    /\ UNCHANGED <<config, observation_space, total_t_steps>>

\* reset() returns the initial observation
Reset ==
    /\ episode < MaxEpisode
    /\ \E p \in Paths, obs \in Observations(config), w \in LookAheadWrites :
        /\ ~ObsRejected(obs)
        /\ ResetBody(p, w)
        /\ past_obs' = Some(<<obs>>)
        /\ episode' = episode + 1
        /\ ret' = Ret("reset", "none", obs, Fin(0), FALSE, FALSE, Fin(0))

\* reset() raises AssertionError at line 241
ResetRaises ==
    /\ episode < MaxEpisode
    /\ \E p \in Paths, obs \in Observations(config), w \in LookAheadWrites :
        /\ ObsRejected(obs)
        /\ ResetBody(p, w)
        /\ past_obs' = PyNone
        /\ episode' = episode
        /\ ret' = Ret("reset", "AssertionError", obs, Fin(0), FALSE, FALSE,
                      Fin(0))

\* prog / self.path.length where the division does not raise (numpy
\* scalars: a zero divisor gives nan or an infinity and a warning)
Div(a, b) ==
    IF b # 0 THEN Frac(a, b)
    ELSE IF a = 0 THEN NaN ELSE IF a > 0 THEN PInf ELSE NInf

\* step() up to and including observe(), lines 158-184
StepBody(action, prog, w) ==
    /\ past_actions' = np_vstack(past_actions, action)
    /\ vessel' = VesselStep(vessel, action)
    /\ max_path_prog' = NewMaxPathProg(max_path_prog, prog)
    /\ path_prog' = Some(np_append_to(path_prog, prog))
    /\ target_arclength' =
         NewTargetArclength(look_ahead_arclength,
                            TargetMaxPathProg(
                                max_path_prog,
                                NewMaxPathProg(max_path_prog, prog)),
                            path.length, config)
    /\ look_ahead_arclength' = ObserveLookAhead(look_ahead_arclength, w)
    /\ prev' = Prev(ret)
    /\ UNCHANGED <<config, observation_space, path, np_random, past_errors, episode, memory>>

\* the step() calls the model explores
StepExplored == total_t_steps < MaxSteps /\ Len(past_actions) <= MaxSteps

\* lines 187-197: the reward step() records and returns is the one
\* step_reward() gave; the budget test of lines 194-195 does not touch it
ReturnedReward(reward, t, cfg) == reward

\* step() from line 158 to its return, given what the collaborators answer
StepReturns(action, prog, w, obs, sdone, reward) ==
    /\ StepBody(action, prog, w)
    /\ past_obs' = Some(np_vstack(past_obs.v, obs))
    /\ past_rewards' =
         np_append(past_rewards, ReturnedReward(reward, t_step + 1, config))
    /\ cumulative_reward' =
         FAdd(cumulative_reward, ReturnedReward(reward, t_step + 1, config))
    /\ t_step' = t_step + 1
    /\ total_t_steps' = total_t_steps + 1
    /\ ret' = Ret("step", "none", obs,
                  ReturnedReward(reward, t_step + 1, config),
                  StepDone(sdone, t_step + 1, config), sdone,
                  Div(prog, path.length))

\* step() returns
Step ==
    /\ StepExplored
    /\ ~past_obs.isNone
    /\ \E action \in Actions : \E prog \in ProgChoices(action), w \in LookAheadWrites,
          obs \in Observations(config), sdone \in BOOLEAN,
          reward \in Rewards :
        /\ ~ObsRejected(obs)
        /\ StepReturns(action, prog, w, obs, sdone, reward)
        /\ answers' = Unobserved

\* step() raises AssertionError at line 185
StepRaisesAssertion ==
    /\ StepExplored
    /\ \E action \in Actions : \E prog \in ProgChoices(action), w \in LookAheadWrites,
          obs \in Observations(config) :
        /\ ObsRejected(obs)
        /\ StepBody(action, prog, w)
        /\ answers' = Unobserved
        /\ ret' = Ret("step", "AssertionError", obs, Fin(0), FALSE, FALSE,
                      Fin(0))
        /\ UNCHANGED <<past_obs, past_rewards, cumulative_reward, t_step,
                       total_t_steps>>

\* step() after a reset() that raised: past_obs is None and np.vstack of
\* None with the observation raises ValueError at line 186
StepRaisesValueError ==
    /\ StepExplored
    /\ past_obs.isNone
    /\ \E action \in Actions : \E prog \in ProgChoices(action), w \in LookAheadWrites,
          obs \in Observations(config) :
        /\ ~ObsRejected(obs)
        /\ StepBody(action, prog, w)
        /\ answers' = Unobserved
        /\ ret' = Ret("step", "ValueError", obs, Fin(0), FALSE, FALSE,
                      Fin(0))
        /\ UNCHANGED <<past_obs, past_rewards, cumulative_reward, t_step,
                       total_t_steps>>

\* step() on a path of length zero where prog and path.length are Python
\* numbers: the division of line 188 raises ZeroDivisionError
StepRaisesZeroDivision ==
    /\ StepExplored
    /\ ~past_obs.isNone
    /\ path.length = 0
    /\ \E action \in Actions : \E prog \in ProgChoices(action), w \in LookAheadWrites,
          obs \in Observations(config) :
        /\ ~ObsRejected(obs)
        /\ StepBody(action, prog, w)
        /\ answers' = Unobserved
        /\ past_obs' = Some(np_vstack(past_obs.v, obs))
        /\ ret' = Ret("step", "ZeroDivisionError", obs, Fin(0), FALSE, FALSE,
                      Fin(0))
        /\ UNCHANGED <<past_rewards, cumulative_reward, t_step,
                       total_t_steps>>

\* seed(seed), lines 258-260; seed None draws the seed from entropy
Seed ==
    /\ \E s \in Seeds \cup {EntropySeed} :
        np_random' = np_random_of(s)
    /\ ret' = Ret("seed", "none", NoObs, Fin(0), FALSE, FALSE, Fin(0))
    /\ prev' = Prev(ret)
    /\ UNCHANGED <<config, observation_space, answers, vessel, path,
                   look_ahead_arclength, cumulative_reward, past_rewards, max_path_prog,
                   target_arclength, path_prog, past_actions, past_obs,
                   past_errors, t_step, total_t_steps, episode, memory>>

\* the calls Spec explores: reset() and step(), each returning or raising
\* (seed() writes np_random only, which neither of them reads back)
Next ==
    \/ Reset
    \/ ResetRaises
    \/ Step
    \/ StepRaisesAssertion
    \/ StepRaisesValueError
    \/ StepRaisesZeroDivision

Spec == Init /\ [][Next]_vars

\* the extension points on an uneventful run: observe() assembles the zero
\* vector and leaves look_ahead_arclength alone (None as line 234 set it in
\* reset(), what it was in step()), step_reward() returns a finite reward
\* and does not signal done
Uneventful ==
    /\ look_ahead_arclength' =
         (IF ret'.op = "reset" THEN PyNone ELSE look_ahead_arclength)
    /\ \A i \in 1..Len(ret'.obs) : ret'.obs[i] = Fin(0)
    /\ IsFinite(ret'.reward)
    /\ ~ret'.shaper_done

\* the calls SpecSeed explores: seed() between uneventful reset() and step()
NextSeed ==
    \/ Seed
    \/ Reset /\ Uneventful
    \/ Step /\ Uneventful

SpecSeed == Init /\ [][NextSeed]_vars

\* the reward shaper behind step_reward(): the reward of a step is the
\* progress reward, and the termination conditions are tested in this order,
\* the first that holds deciding: (1) the step count is over max_timestemps:
\* done, nothing added; (2) collision: done, the terminal penalty added;
\* (3) end of path reached: done, the terminal bonus added; (4) cross-track
\* error out of the corridor: done
ProgressReward == Fin(1)
TerminalPenalty == Fin(0 - 2)
TerminalBonus == Fin(2)
ShaperEvents ==
    [collision : BOOLEAN, at_end : BOOLEAN, off_corridor : BOOLEAN]
ShaperOutcome(count, ev, cfg) ==
    IF count > cfg.max_timestemps
    THEN [done |-> TRUE, reward |-> ProgressReward]
    ELSE IF ev.collision
    THEN [done |-> TRUE, reward |-> FAdd(ProgressReward, TerminalPenalty)]
    ELSE IF ev.at_end
    THEN [done |-> TRUE, reward |-> FAdd(ProgressReward, TerminalBonus)]
    ELSE IF ev.off_corridor
    THEN [done |-> TRUE, reward |-> ProgressReward]
    ELSE [done |-> FALSE, reward |-> ProgressReward]

\* the step count the shaper tests: step_reward() takes no argument and
\* line 187 calls it before line 192 adds one to t_step, so a shaper that
\* reads self.t_step finds t; one that counts the running step finds t + 1
ShaperCounts(t) == {t, t + 1}

\* step() returns, step_reward() of line 187 answering as that shaper does;
\* what the shaper saw is put on record
StepShaped ==
    /\ StepExplored
    /\ ~past_obs.isNone
    /\ \E action \in Actions :
       \E prog \in ProgChoices(action), ev \in ShaperEvents,
          count \in ShaperCounts(t_step) :
        /\ StepReturns(action, prog, PyNone,
                       ObsWith(nobservations(config), nstates, Fin(0)),
                       ShaperOutcome(count, ev, config).done,
                       ShaperOutcome(count, ev, config).reward)
        /\ answers' = Some([events |-> ev, count |-> count])

\* the calls SpecShaper explores
NextShaper ==
    \/ Reset /\ Uneventful
    \/ StepShaped

SpecShaper == Init /\ [][NextShaper]_vars

\* look-ahead arclengths observe() writes in the observed steps
LookAheadsObserved == {0, 1}

\* step() returns, the answers of the path and the vessel on record
StepObserved ==
    /\ StepExplored
    /\ ~past_obs.isNone
    /\ \E action \in Actions, ans \in Answers,
          w \in {PyNone} \cup { Some(l) : l \in LookAheadsObserved } :
        /\ StepReturns(action, ProgOf(ans, action), w,
                       ObsWith(nobservations(config), nstates, Fin(0)),
                       FALSE, Fin(1))
        /\ answers' = Some(ans)

\* the calls SpecProg explores
NextProg ==
    \/ Reset /\ Uneventful
    \/ StepObserved

SpecProg == Init /\ [][NextProg]_vars

-----------------------------------------------------------------------------
(* Properties *)

IsStep(r) == r.op = "step"
IsReset(r) == r.op = "reset"
StepReturned(r) == IsStep(r) /\ Returned(r)
ResetReturned(r) == (IsReset(r) \/ r.op = "init") /\ Returned(r)

\* a step() call has reached line 176 since the last reset()
Stepped == ~path_prog.isNone

\* the prog the last step() call recorded
LastProg == path_prog.v[Len(path_prog.v)].v

\* C1: within an episode max_path_prog never decreases: every step() call,
\* returning or raising, whichever way it computes prog, leaves it where it
\* was or moves it up.
C1_MaxPathProgNonDecreasing ==
    [][IsStep(ret') => max_path_prog' >= max_path_prog]_vars

\* a step() recorded a prog below the maximum reached before it
C1_Witness ==
    /\ StepReturned(ret)
    /\ Stepped
    /\ Len(path_prog.v) >= 3
    /\ LastProg < max_path_prog

\* the bound the specification states for target_arclength
TargetBound ==
    /\ target_arclength \in 0..path.length
    /\ IF max_path_prog + config.min_la_dist > path.length
       THEN target_arclength = path.length
       ELSE target_arclength >= max_path_prog + config.min_la_dist

\* C2 as stated: in every reachable state, the state right after reset()
\* included, target_arclength is in [0, path.length] and is at least
\* max_path_prog + min_la_dist, or path.length when that sum exceeds it.
C2_TargetBoundAlways == TargetBound

\* C2, amended: target_arclength is in [0, path.length] in every state, and
\* once a step() call of the episode has updated it, it is at least
\* max_path_prog + min_la_dist, or path.length when that sum exceeds it.
C2_TargetBoundAfterStep ==
    /\ target_arclength \in 0..path.length
    /\ Stepped => TargetBound

\* a step() left the target clamped to the length of a path of positive length
C2_Witness ==
    /\ Stepped
    /\ IsStep(ret)
    /\ path.length > 0
    /\ max_path_prog > 0
    /\ max_path_prog + config.min_la_dist > path.length
    /\ target_arclength = path.length

\* C3 as stated: after a step() that returned done=True, a further step()
\* call changes neither the vessel, the progress, the histories nor the
\* counters.
C3_NoStepAfterDone ==
    [][(StepReturned(ret) /\ ret.done /\ IsStep(ret'))
         => UNCHANGED <<vessel, max_path_prog, path_prog, past_actions,
                        past_obs, past_rewards, cumulative_reward, t_step,
                        total_t_steps>>]_vars

\* C4: a returning step() reports done exactly when step_reward() signalled
\* done or more than max_timestemps steps have returned since reset(); with no
\* signal from step_reward() the steps up to max_timestemps report False and
\* the next one True.
C4_DoneIffShaperOrBudget ==
    StepReturned(ret) =>
        /\ ret.done <=> (ret.shaper_done
                           \/ Len(past_rewards) > config.max_timestemps)
        /\ (~ret.shaper_done /\ Len(past_rewards) <= config.max_timestemps)
             => ~ret.done
        /\ Len(past_rewards) = config.max_timestemps + 1 => ret.done

\* the step after the budget reports done without a signal of step_reward()
C4_Witness ==
    /\ StepReturned(ret)
    /\ ~ret.shaper_done
    /\ ret.done
    /\ Len(past_rewards) = config.max_timestemps + 1

\* C5 as stated: step() and reset() return no observation with a NaN or an
\* infinity in it.
C5_ReturnedObsFinite ==
    ((IsStep(ret) \/ IsReset(ret)) /\ Returned(ret))
        => \A i \in 1..Len(ret.obs) : IsFinite(ret.obs[i])

\* C6 as stated: a step reward that is not finite is neither returned, nor
\* appended to past_rewards, nor added to cumulative_reward.
C6_RewardFinite ==
    /\ StepReturned(ret) => IsFinite(ret.reward)
    /\ \A i \in 1..Len(past_rewards) : IsFinite(past_rewards[i])
    /\ IsFinite(cumulative_reward)

\* x is y with one entry appended
OneMore(x, y) == Len(x) = Len(y) + 1 /\ SubSeq(x, 1, Len(y)) = y

\* C7: a returning step() appends exactly one entry to each of past_actions,
\* past_obs and past_rewards and leaves the earlier entries as they were.
C7_HistoriesAppendOnce ==
    [][StepReturned(ret')
         => /\ OneMore(past_actions', past_actions)
            /\ ~past_obs.isNone /\ ~past_obs'.isNone
            /\ OneMore(past_obs'.v, past_obs.v)
            /\ OneMore(past_rewards', past_rewards)
            /\ past_actions'[Len(past_actions')] \in Actions
            /\ past_obs'.v[Len(past_obs'.v)] = ret'.obs
            /\ past_rewards'[Len(past_rewards')] = ret'.reward]_vars

\* a second step() of an episode has returned
C7_Witness ==
    /\ StepReturned(ret)
    /\ Len(past_rewards) >= 2
    /\ Len(past_actions) >= 3

\* the scalars and the histories reset() sets to zero or empties
ScalarsCleared ==
    /\ cumulative_reward = Fin(0)
    /\ max_path_prog = 0
    /\ target_arclength = 0
    /\ t_step = 0
    /\ past_rewards = << >>
    /\ past_errors = EmptyErrors

\* C8 as stated: after reset() returns, past_actions, past_obs, past_rewards
\* and past_errors are empty and cumulative_reward, max_path_prog,
\* target_arclength and t_step are 0.
C8_AllEmptyAfterReset ==
    (IsReset(ret) /\ Returned(ret))
        => /\ ScalarsCleared
           /\ Len(past_actions) = 0
           /\ past_obs.isNone \/ Len(past_obs.v) = 0

\* C8, amended: after reset() returns, past_rewards and past_errors are empty,
\* cumulative_reward, max_path_prog, target_arclength and t_step are 0,
\* past_actions holds the one row [0, 0] and past_obs holds the one
\* observation reset() returned.
C8_ClearedAfterReset ==
    ResetReturned(ret)
        => /\ ScalarsCleared
           /\ past_actions = << <<0, 0>> >>
           /\ past_obs = Some(<<ret.obs>>)
           /\ path_prog = PyNone

\* reset() returned after an episode in which a step returned
C8_Witness ==
    /\ IsReset(ret) /\ Returned(ret)
    /\ total_t_steps > 0
    /\ memory.set
    /\ prev.op = "step" /\ prev.raised = "none"

\* C9: a reset() right after a reset() returns an observation without NaN of
\* the declared length, as the first did, leaves max_path_prog at 0 and the
\* episode's bookkeeping as the first left it, and does not touch memory.
C9_ResetTwice ==
    [][(ResetReturned(ret) /\ IsReset(ret') /\ Returned(ret'))
         => /\ ~HasNan(ret.obs) /\ ~HasNan(ret'.obs)
            /\ Len(ret'.obs) = nobservations(config)
            /\ max_path_prog = 0 /\ max_path_prog' = 0
            /\ ScalarsCleared /\ ScalarsCleared'
            /\ past_actions' = past_actions
            /\ path_prog' = path_prog
            /\ past_obs' = Some(<<ret'.obs>>)
            /\ memory' = memory]_vars

\* two reset() calls in a row, the first of which stored a record
C9_Witness ==
    /\ IsReset(ret) /\ Returned(ret)
    /\ prev.op = "reset" /\ prev.raised = "none"
    /\ memory.set

\* C10: reset() stores the path and the track of the episode it ends, as
\* they were before it clears them, if a step() of that episode returned, and
\* leaves memory as it was if none did.
C10_MemoryIffEpisodeRan ==
    [][IsReset(ret')
         => memory' = IF Len(past_rewards) > 0
                      THEN [set |-> TRUE, path |-> PathSamples(path),
                            path_taken |-> vessel.path_taken]
                      ELSE memory]_vars

\* reset() stored the track of an episode of two steps on a path of
\* positive length
C10_Witness ==
    /\ IsReset(ret)
    /\ prev.op = "step"
    /\ memory.set
    /\ Len(memory.path_taken) >= 3
    /\ memory.path[Len(memory.path)] > 0

\* C11: the random source is set when construction ends, and no reset() and
\* no step() after that replaces or re-seeds it: it stays the generator the
\* construction or the last seed() call made.
C11_SeededOnce ==
    /\ [](~np_random.isNone)
    /\ [][(IsReset(ret') \/ IsStep(ret')) => np_random' = np_random]_vars

\* reset() returned right after seed(1), and the generator is still that one
C11_Witness ==
    /\ IsReset(ret) /\ Returned(ret)
    /\ prev.op = "seed"
    /\ np_random = np_random_of(1)
    /\ np_random # np_random_of(EntropySeed)

\* C12 as stated: on a path of length zero a step() call that gets past the
\* observation checks does not divide by zero and reports progress 0.
C12_ZeroLengthProgress ==
    (IsStep(ret) /\ path.length = 0
        /\ ret.raised \in {"none", "ZeroDivisionError"})
        => /\ ret.raised = "none"
           /\ ret.progress = Fin(0)

\* the last step() was over the step budget
OverBudget == StepReturned(ret) /\ Len(past_rewards) > config.max_timestemps

Slots == DOMAIN observation_space.low

\* C14 as stated: the observation space has 7 + 2*n_sectors slots, all
\* bounded by [-1, 1] except one slot bounded by [-10000, 10000], and that
\* slot is the second state feature slot (index 1).
C14_ExtendedSecondSlot ==
    /\ Slots = 0..(7 + 2 * config.n_sectors - 1)
    /\ DOMAIN observation_space.high = Slots
    /\ \A i \in Slots :
        /\ observation_space.low[i] = (IF i = 1 THEN 0 - 10000 ELSE 0 - 1)
        /\ observation_space.high[i] = (IF i = 1 THEN 10000 ELSE 1)

\* C14, amended: the observation space has 7 + 2*n_sectors slots, all
\* bounded by [-1, 1] except one slot bounded by [-10000, 10000], and that
\* slot is the last of the 7 state feature slots (index 6).
C14_ExtendedLastStateSlot ==
    /\ Slots = 0..(7 + 2 * config.n_sectors - 1)
    /\ DOMAIN observation_space.high = Slots
    /\ \A i \in Slots :
        /\ observation_space.low[i] = (IF i = 6 THEN 0 - 10000 ELSE 0 - 1)
        /\ observation_space.high[i] = (IF i = 6 THEN 10000 ELSE 1)

\* an environment with two sectors, constructed: 11 slots, the seventh one
\* extended and the second one not
C14_Witness ==
    /\ config.n_sectors = 2
    /\ ret.op = "init"
    /\ Cardinality(Slots) = 11
    /\ observation_space.high[6] = 10000
    /\ observation_space.high[1] = 1

\* a returning step() whose answers are on record
ObservedStep == StepReturned(ret) /\ ~answers.isNone

\* C15: in step() the new progress is closest_arclength when
\* closest_point_distance is below max_closest_point_distance or the
\* absolute closest_point_heading_error is below
\* max_closest_point_heading_error; otherwise it is the previous
\* max_path_prog plus dprog, clamped to [0, path.length]; and the new
\* max_path_prog is the larger of the previous one and the new progress.
C15_ProgressSwitch ==
    [][ObservedStep'
        => LET a == answers'.v
               dprog == a.cosine * vessel'.speed * config.t_step_size
               near == a.dist < config.max_closest_point_distance
               aligned ==
                   Abs(a.herr) < config.max_closest_point_heading_error
               projected == max_path_prog + dprog
               clamped ==
                   IF projected < 0 THEN 0
                   ELSE IF projected > path.length THEN path.length
                   ELSE projected
           IN  /\ (near \/ aligned) => LastProg' = a.closest_arclength
               /\ ~(near \/ aligned) => LastProg' = clamped
               /\ max_path_prog' =
                    (IF LastProg' > max_path_prog THEN LastProg'
                     ELSE max_path_prog)]_vars

\* a step with the vessel not near the path but aligned with it took the
\* closest point's arclength and moved the maximum up to it
C15_Witness ==
    /\ ObservedStep
    /\ ~(answers.v.dist < config.max_closest_point_distance)
    /\ Abs(answers.v.herr) < config.max_closest_point_heading_error
    /\ answers.v.closest_arclength = 1
    /\ LastProg = 1
    /\ max_path_prog = 1

\* target_arclength of lines 178-182 with m read for self.max_path_prog,
\* look_ahead_arclength being what it was when step() was called
TargetWith(m) ==
    LET floor == m + config.min_la_dist
        unclamped ==
            IF look_ahead_arclength.isNone THEN floor
            ELSE IF look_ahead_arclength.v > floor
                 THEN look_ahead_arclength.v ELSE floor
    IN  IF unclamped > path.length THEN path.length ELSE unclamped

\* C16 as stated: step() computes target_arclength from max_path_prog as it
\* was before this step's update in one branch (look_ahead_arclength unset)
\* and as it is after the update in the other (look_ahead_arclength set).
C16_BeforeInOneBranch ==
    [][ObservedStep'
        => target_arclength' =
             (IF look_ahead_arclength.isNone
              THEN TargetWith(max_path_prog)
              ELSE TargetWith(max_path_prog'))]_vars

\* C16, amended: step() computes target_arclength from max_path_prog as it
\* is after this step's update, in both branches (look_ahead_arclength
\* unset and set).
C16_AfterInBothBranches ==
    [][ObservedStep' => target_arclength' = TargetWith(max_path_prog')]_vars

\* the first step of a second episode, look_ahead_arclength unset, moved
\* the maximum from 0 to 1 and the target with it
C16_Witness ==
    /\ ObservedStep
    /\ episode = 2
    /\ t_step = 1
    /\ config.min_la_dist = 0
    /\ max_path_prog = 1
    /\ target_arclength = 1

\* C17: over any sequence of reset() and step() calls, t_step counts the
\* steps since the last reset, total_t_steps counts the steps since
\* construction and no reset() lowers it, and episode counts the reset()
\* calls that returned, the one of the constructor included: a returning
\* step() adds one to t_step and to total_t_steps, a returning reset() sets
\* t_step to 0 and adds one to episode, and nothing else moves them.
C17_Counters ==
    /\ (t_step = 0 /\ total_t_steps = 0 /\ episode = 1)
    /\ [][/\ StepReturned(ret')
             => /\ t_step' = t_step + 1
                /\ total_t_steps' = total_t_steps + 1
                /\ episode' = episode
          /\ (IsReset(ret') /\ Returned(ret'))
             => /\ t_step' = 0
                /\ total_t_steps' = total_t_steps
                /\ episode' = episode + 1
          /\ (IsStep(ret') /\ ~Returned(ret'))
             => UNCHANGED <<t_step, total_t_steps, episode>>
          /\ (IsReset(ret') /\ ~Returned(ret'))
             => /\ t_step' = 0
                /\ UNCHANGED <<total_t_steps, episode>>]_vars

\* one step in the first episode, a reset(), one step in the second
C17_Witness ==
    /\ StepReturned(ret)
    /\ episode = 2
    /\ t_step = 1
    /\ total_t_steps = 2

\* the float sum of the entries of a history, added up from 0 in the order
\* they were recorded
RECURSIVE FSum(_)
FSum(seq) ==
    IF seq = << >> THEN Fin(0)
    ELSE FAdd(FSum(SubSeq(seq, 1, Len(seq) - 1)), seq[Len(seq)])

\* C18: whatever calls were made, cumulative_reward is the sum of the
\* entries of past_rewards (nan where an entry is nan) and past_rewards has
\* t_step entries.
C18_RewardBookkeeping ==
    /\ cumulative_reward = FSum(past_rewards)
    /\ Len(past_rewards) = t_step

\* two steps of an episode returned, each with reward 1
C18_Witness ==
    /\ StepReturned(ret)
    /\ t_step = 2
    /\ past_rewards = <<Fin(1), Fin(1)>>
    /\ cumulative_reward = Fin(2)

\* the progress values recorded in path_prog since the last reset(); the
\* first entry of path_prog is the None it held before the first step
RecordedProgs ==
    IF path_prog.isNone THEN {}
    ELSE { path_prog.v[i].v : i \in 2..Len(path_prog.v) }

\* C19: max_path_prog is the maximum of 0 and every progress value recorded
\* in path_prog since the last reset(); in particular no recorded progress
\* is above it.
C19_MaxOfRecordedProgs ==
    /\ max_path_prog \in RecordedProgs \cup {0}
    /\ \A x \in RecordedProgs \cup {0} : x <= max_path_prog

\* two steps, the first recorded progress 1 and the second fell back to 0
C19_Witness ==
    /\ StepReturned(ret)
    /\ Len(path_prog.v) = 3
    /\ path_prog.v[2].v = 1
    /\ path_prog.v[3].v = 0
    /\ max_path_prog = 1

\* step() raised AssertionError at the observation check of line 185
StepAborted(r) == IsStep(r) /\ r.raised = "AssertionError"

\* C20: a step() call that aborts at the observation check leaves t_step,
\* total_t_steps, cumulative_reward, past_rewards and past_obs as they
\* were, while what precedes the check has taken place: the action is
\* appended, the vessel has moved, the progress is recorded and
\* max_path_prog and target_arclength are updated from it.
C20_AbortedStepEffects ==
    [][StepAborted(ret')
        => /\ UNCHANGED <<t_step, total_t_steps, cumulative_reward,
                          past_rewards, past_obs>>
           /\ Len(past_actions') = Len(past_actions) + 1
           /\ Len(vessel'.path_taken) = Len(vessel.path_taken) + 1
           /\ Len(path_prog'.v) =
                (IF path_prog.isNone THEN 2 ELSE Len(path_prog.v) + 1)
           /\ max_path_prog' =
                (IF LastProg' > max_path_prog THEN LastProg'
                 ELSE max_path_prog)
           /\ target_arclength' = TargetWith(max_path_prog')]_vars

\* a step() aborted after one that returned: the action history is one row
\* longer than the observation history, the progress moved to 1
C20_Witness ==
    /\ StepAborted(ret)
    /\ HasNan(ret.obs)
    /\ t_step = 1
    /\ Len(past_actions) = 3
    /\ Len(past_obs.v) = 2
    /\ Len(past_rewards) = 1
    /\ max_path_prog = 1
====
